---- MODULE Spec2Model ----
(***************************************************************************)
(* Model of time_sync.py: the device reachability check with its status   *)
(* transitions and notifications, the per-device time synchronisation,    *)
(* the pass over all configured devices, and the process entry modes.     *)
(*                                                                         *)
(* The ZK device client, the PickleDB status store and the webhook are     *)
(* external: every call on them is a nondeterministic choice over the     *)
(* outcomes it can have (a result or an exception).                        *)
(***************************************************************************)
EXTENDS Integers, Sequences, FiniteSets, TLC

(* ------------------------------ bounds --------------------------------- *)
\* number of entries of config.devices
NumDevices == 2
\* number of passes of sync_all_devices the service loop is followed for
MaxCycles == 2

(* ------------------------- program constants --------------------------- *)
TIME_TOLERANCE_SECONDS == 60
SignificantSeconds == 300

Devices == 1..NumDevices

\* value of status.get(key) for a key that was never set
None == "none"

\* value returned by a function that was not called (observation only)
NotCalled == "-"

\* device_time - system_time, in seconds, that a device may present at the
\* first read of its clock
Offsets == {-61, 0, 60, 300, 400}
\* updated_device_time - system_time, in seconds, that a device may present
\* at the verification read after the settle delay
VerifyOffsets == {-61, 5, 60}

Outcomes == {"ok", "raise"}
HttpOutcomes == {"exception", "200", "204", "500"}
OpNames == {"get_time", "disable", "set_time", "enable"}
Modes == {"service", "sync", "check", "test", "usage"}

Abs(x) == IF x < 0 THEN 0 - x ELSE x

VARIABLES
    mode,          \* sys.argv[1], "service" when absent
    ENABLE_TIME_SYNC,
    ENABLE_CHAT_NOTIFICATIONS,
    GOOGLE_CHAT_WEBHOOK,   \* TRUE when a webhook URL is configured
    pc,            \* position of the process
    i,             \* index into config.devices of the device being processed
    cycle,         \* number of the current pass of sync_all_devices
    status,        \* status[d]: value of key <d>_online_status
    lastSync,      \* lastSync[d]: pass that wrote <d>_last_time_sync, 0 if none
    lastRun,       \* pass that wrote last_time_sync_run, 0 if none
    time_diff,     \* local time_diff of sync_device_time
    chk,           \* the call of check_device_online_status of the last step
    snd,           \* the last call of send_google_chat_message of the last step
    interrupted,   \* position at which KeyboardInterrupt was raised, "no" if none
    order,         \* the devices checked in the current pass, in order
    obs,           \* what happened to device obs.dev, the one processed last
    open           \* the number of device sessions connected and not yet closed

vars == << mode, ENABLE_TIME_SYNC, ENABLE_CHAT_NOTIFICATIONS, GOOGLE_CHAT_WEBHOOK,
           pc, i, cycle, status, lastSync, lastRun, time_diff,
           chk, snd, interrupted, order, obs, open >>

config == << mode, ENABLE_TIME_SYNC, ENABLE_CHAT_NOTIFICATIONS, GOOGLE_CHAT_WEBHOOK >>
store == << status, lastSync, lastRun >>

(* ----------------------- send_google_chat_message ---------------------- *)
\* variant: every 2xx response counts as delivered and the configuration
\* switch is not consulted
send_google_chat_message_Any2xx(kind, http) ==
    IF ~GOOGLE_CHAT_WEBHOOK
    THEN [kind |-> kind, posts |-> 0, http |-> "none", ret |-> FALSE, raised |-> FALSE]
    ELSE [kind |-> kind, posts |-> 1, http |-> http,
          ret |-> (http \in {"200", "204"}), raised |-> FALSE]

\* result of one call: whether a POST was made, its outcome, the value
\* returned and whether an exception left the function
send_google_chat_message(kind, http) ==
    IF ~ENABLE_CHAT_NOTIFICATIONS \/ ~GOOGLE_CHAT_WEBHOOK
    THEN [kind |-> kind, posts |-> 0, http |-> "none", ret |-> FALSE, raised |-> FALSE]
    ELSE IF ~GOOGLE_CHAT_WEBHOOK
    THEN [kind |-> kind, posts |-> 0, http |-> "none", ret |-> FALSE, raised |-> FALSE]
    ELSE [kind |-> kind, posts |-> 1, http |-> http,
          ret |-> (http = "200"), raised |-> FALSE]

NoSend == [kind |-> "none", posts |-> 0, http |-> "none", ret |-> FALSE, raised |-> FALSE]

(* ---------------------- check_device_online_status --------------------- *)
\* variant: every successful probe writes the status
CameOnline_Always(previous_status) == TRUE
\* line 98: the stored status is refreshed on a successful probe
CameOnline(previous_status) == previous_status = "offline" \/ previous_status = None
\* variant: the first check of a device is announced like a return
NotifiesOnline_FirstCheck(previous_status) ==
    previous_status = "offline" \/ previous_status = None
\* line 100: the "back ONLINE" message
NotifiesOnline(previous_status) == previous_status = "offline"
\* variant: every failed probe is announced
WentOffline_Always(previous_status) == TRUE
\* variant: only a device known to be online goes offline
WentOffline_FromOnline(previous_status) == previous_status = "online"
\* line 117: the "OFFLINE" message and the write of 'offline'
WentOffline(previous_status) == previous_status # "offline"

\* the except branch, lines 113-129, entered with `stored` in the store and
\* `msgs` already sent by the try block
\* and `sets` calls of status.set already made
OfflineBranch(stored, msgs, probe, save, sets) ==
    IF WentOffline(stored)
    THEN [status |-> "offline", msgs |-> Append(msgs, "offline"), probe |-> probe,
          ret |-> IF save = "ok" THEN "false" ELSE "raise", sets |-> sets + 1]
    ELSE [status |-> stored, msgs |-> msgs, probe |-> probe, ret |-> "false",
          sets |-> sets]

\* the course of one call, with the stored status it started from
Course(stored, r) ==
    [prev |-> stored, probe |-> r.probe, ret |-> r.ret, msgs |-> r.msgs]

\* the whole function: `stored` is status.get(status_key) on entry; connect,
\* disconnect, save1 (line 109) and save2 (line 127) are the outcomes of the
\* external calls; `sets` counts the calls of status.set, `opened` the
\* sessions connected (line 92) and `closed` the calls of disconnect (line 93)
check_device_online_status(stored, connect, disconnect, save1, save2) ==
    [opened |-> IF connect = "ok" THEN 1 ELSE 0,
     closed |-> IF connect = "ok" THEN 1 ELSE 0] @@
    IF connect = "ok" /\ disconnect = "ok"
    THEN IF CameOnline(stored)
         THEN LET msgs == IF NotifiesOnline(stored) THEN << "online" >> ELSE << >>
              IN  IF save1 = "ok"
                  THEN [status |-> "online", msgs |-> msgs, probe |-> "ok",
                        ret |-> "true", sets |-> 1]
                  ELSE OfflineBranch("online", msgs, "ok", save2, 1)
         ELSE [status |-> stored, msgs |-> << >>, probe |-> "ok", ret |-> "true",
               sets |-> 0]
    ELSE OfflineBranch(stored, << >>, "fail", save2, 0)

(* ------------------------- sessions of the device ---------------------- *)
\* variant: the session is closed only when nothing was raised
Finally_OnSuccess(conn, raised) == conn /\ ~raised
\* lines 145-147 and 178-180, `finally: if conn: conn.disconnect()`: whether
\* disconnect is called when the try block ends
Finally(conn, raised) == conn

\* the number of disconnect calls made on leaving the try block
Closed(conn, raised) == IF Finally(conn, raised) THEN 1 ELSE 0

(* --------------------------- get_device_time --------------------------- *)
\* connect, get (conn.get_time(): "raise", "none" for a falsy value, "time")
\* and disconnect are the outcomes of the device calls; `invoked` is the set
\* of device operations called on the session, `failed` the call that raised
\* first
get_device_time(connect, get, disconnect) ==
    IF connect # "ok"
    THEN [ret |-> "raise", invoked |-> {}, failed |-> "connect",
          opened |-> 0, closed |-> Closed(FALSE, TRUE)]
    ELSE IF get = "raise"
    THEN [ret |-> "raise", invoked |-> {"get_time"}, failed |-> "get_time",
          opened |-> 1, closed |-> Closed(TRUE, TRUE)]
    ELSE IF disconnect # "ok"
    THEN [ret |-> "raise", invoked |-> {"get_time"}, failed |-> "disconnect",
          opened |-> 1, closed |-> Closed(TRUE, FALSE)]
    ELSE [ret |-> get, invoked |-> {"get_time"}, failed |-> "none",
          opened |-> 1, closed |-> Closed(TRUE, FALSE)]

(* --------------------------- set_device_time --------------------------- *)
\* variant: the failure path enables the device again
set_device_time_Reenables(connect, disable, set, enable, disconnect) ==
    IF connect # "ok"
    THEN [ret |-> "raise", invoked |-> {}, failed |-> "connect", disabled |-> FALSE,
          opened |-> 0, closed |-> 0]
    ELSE IF disable # "ok"
    THEN [ret |-> "raise", invoked |-> {"disable"}, failed |-> "disable",
          disabled |-> FALSE, opened |-> 1, closed |-> 1]
    ELSE IF set # "ok"
    THEN [ret |-> "raise", invoked |-> {"disable", "set_time", "enable"},
          failed |-> "set_time", disabled |-> FALSE, opened |-> 1, closed |-> 1]
    ELSE IF enable # "ok"
    THEN [ret |-> "raise", invoked |-> {"disable", "set_time", "enable"},
          failed |-> "enable", disabled |-> FALSE, opened |-> 1, closed |-> 1]
    ELSE [ret |-> IF disconnect = "ok" THEN "true" ELSE "raise",
          invoked |-> {"disable", "set_time", "enable"},
          failed |-> IF disconnect = "ok" THEN "none" ELSE "disconnect",
          disabled |-> FALSE, opened |-> 1, closed |-> 1]

\* `disabled` tells whether disable_device succeeded and no enable_device
\* succeeded after it
set_device_time(connect, disable, set, enable, disconnect) ==
    IF connect # "ok"
    THEN [ret |-> "raise", invoked |-> {}, failed |-> "connect", disabled |-> FALSE,
          opened |-> 0, closed |-> Closed(FALSE, TRUE)]
    ELSE IF disable # "ok"
    THEN [ret |-> "raise", invoked |-> {"disable"}, failed |-> "disable",
          disabled |-> FALSE, opened |-> 1, closed |-> Closed(TRUE, TRUE)]
    ELSE IF set # "ok"
    THEN [ret |-> "raise", invoked |-> {"disable", "set_time"},
          failed |-> "set_time", disabled |-> TRUE,
          opened |-> 1, closed |-> Closed(TRUE, TRUE)]
    ELSE IF enable # "ok"
    THEN [ret |-> "raise", invoked |-> {"disable", "set_time", "enable"},
          failed |-> "enable", disabled |-> TRUE,
          opened |-> 1, closed |-> Closed(TRUE, TRUE)]
    ELSE [ret |-> IF disconnect = "ok" THEN "true" ELSE "raise",
          invoked |-> {"disable", "set_time", "enable"},
          failed |-> IF disconnect = "ok" THEN "none" ELSE "disconnect",
          disabled |-> FALSE, opened |-> 1, closed |-> Closed(TRUE, FALSE)]

(* ---------------------------- sync_device_time ------------------------- *)
\* variant: a difference equal to the tolerance is corrected too
ExceedsTolerance_Inclusive(diff) == diff >= TIME_TOLERANCE_SECONDS
\* line 207
ExceedsTolerance(diff) == diff > TIME_TOLERANCE_SECONDS
\* variant: a verification difference equal to the tolerance fails
Verified_Strict(verification_diff) == verification_diff < TIME_TOLERANCE_SECONDS
\* variant: the verification read is not compared
Verified_Always(verification_diff) == TRUE
\* line 227
Verified(verification_diff) == verification_diff <= TIME_TOLERANCE_SECONDS
\* variant: every correction is announced
SignificantCorrection_Tolerance(diff) == diff > TIME_TOLERANCE_SECONDS
\* line 215
SignificantCorrection(diff) == diff > SignificantSeconds
\* variant: the handler of sync_device_time reports success
SyncFailed_True == "true"
\* lines 243-245: an exception inside the try block becomes the result False
SyncFailed == "false"
\* variant: a device that failed the check is processed all the same
IsOnline_Ignored(ret) == ret \in {"true", "false"}
\* lines 191 and 263: the truth value of check_device_online_status's result
IsOnline(ret) == ret = "true"
\* variant: only an explicit False counts as failure
Truthy_NotFalse(ret) == ret # "false"
\* line 265: truth value of what sync_device_time returned
Truthy(ret) == ret = "true"

(* ------------------------------ observation ---------------------------- *)
NoCheck == [prev |-> None, probe |-> "none", ret |-> NotCalled, msgs |-> << >>]

\* nothing has happened yet to device d in this pass
FreshObs(d) ==
    [dev |-> d, first |-> NoCheck, checks |-> 0, ops |-> [o \in OpNames |-> 0],
     online |-> 0, offline |-> 0, synced |-> 0, ret |-> NotCalled,
     d1 |-> -1, d2 |-> -1, corrected |-> FALSE,
     unreachable |-> FALSE, sets |-> 0, failed |-> "none", disabled |-> FALSE]

CountOf(msgs, kind) == Cardinality({k \in DOMAIN msgs : msgs[k] = kind})

ObsCheck(o, stored, r) ==
    [o EXCEPT !.first = IF o.checks = 0 THEN Course(stored, r) ELSE @,
              !.checks = @ + 1,
              !.online = @ + CountOf(r.msgs, "online"),
              !.offline = @ + CountOf(r.msgs, "offline"),
              !.unreachable = @ \/ r.ret # "true",
              !.sets = @ + r.sets]

\* a session of get_device_time or set_device_time that took the course r
ObsOps(o, r) ==
    [o EXCEPT !.ops = [n \in OpNames |-> IF n \in r.invoked THEN @[n] + 1 ELSE @[n]],
              !.failed = r.failed]

(* --------------------------------- Init -------------------------------- *)
StartPc(m) ==
    CASE m = "service" -> "startup"
      [] m = "sync" -> "pass"
      [] m = "check" -> "chk_status"
      [] m = "test" -> "test"
      [] OTHER -> "usage"

Init ==
    /\ mode \in Modes
    /\ ENABLE_TIME_SYNC \in BOOLEAN
    /\ ENABLE_CHAT_NOTIFICATIONS \in BOOLEAN
    /\ GOOGLE_CHAT_WEBHOOK \in BOOLEAN
    /\ pc = StartPc(mode)
    /\ i = 1
    /\ cycle = 0
    /\ status \in [Devices -> {None, "online", "offline"}]
    /\ lastSync = [d \in Devices |-> 0]
    /\ lastRun = 0
    /\ time_diff = 0
    /\ chk = [dev |-> 0] @@ NoCheck
    /\ snd = NoSend
    /\ interrupted = "no"
    /\ order = << >>
    /\ obs = FreshObs(0)
    /\ open = 0

(* ------------------------- shared parts of actions --------------------- *)
\* the effects of one call check_device_online_status(config.devices[d])
\* that took the course r; the last message it sent had the outcome http
Checked(d, r, http) ==
    /\ status' = [status EXCEPT ![d] = r.status]
    /\ chk' = [dev |-> d] @@ Course(status[d], r)
    /\ snd' = IF r.msgs = << >> THEN NoSend
              ELSE send_google_chat_message(r.msgs[Len(r.msgs)], http)
    /\ open' = open + r.opened - r.closed

\* the outcomes a POST to the webhook can have, when one is made
Posts == IF ENABLE_CHAT_NOTIFICATIONS /\ GOOGLE_CHAT_WEBHOOK THEN HttpOutcomes ELSE {"none"}

\* the outcomes of zk.connect() and conn.disconnect() of one session
Sessions == {<< "ok", "ok" >>, << "ok", "raise" >>, << "raise", "ok" >>}

\* a step that calls neither check_device_online_status nor
\* send_google_chat_message
Quiet == chk' = [dev |-> 0] @@ NoCheck /\ snd' = NoSend

\* the for loop of sync_all_devices moves to the next device, lines 260, 270
NextDevice ==
    IF i < NumDevices
    THEN i' = i + 1 /\ pc' = "check1"
    ELSE i' = i /\ pc' = "endpass"

\* variant: the exception is handled outside the loop
Caught_Aborts == i' = i /\ pc' = "endpass"
\* lines 270-271: an exception raised while a device is processed is logged
\* and the loop goes on
Caught == NextDevice

\* sync_device_time returns ret to line 265
Return(o, ret) == [o EXCEPT !.ret = ret]

(* ---------------------------- time_sync_service ------------------------ *)
\* lines 299-310: the startup notification
Startup ==
    /\ pc = "startup"
    /\ \E http \in Posts :
          snd' = IF ENABLE_CHAT_NOTIFICATIONS
                 THEN send_google_chat_message("started", http) ELSE NoSend
    /\ chk' = [dev |-> 0] @@ NoCheck
    /\ pc' = "pass"
    /\ UNCHANGED << open, config, interrupted, store, i, cycle, time_diff, order, obs >>

\* line 315: time.sleep(sleep_time), then the next iteration of the loop
Sleep ==
    /\ pc = "sleep"
    /\ cycle < MaxCycles
    /\ pc' = "pass"
    /\ Quiet
    /\ UNCHANGED << open, config, interrupted, store, i, cycle, time_diff, order, obs >>

\* the positions inside the try block of the loop, lines 313-315
LoopPcs == {"pass", "check1", "check2", "get_time", "set_time", "notify", "verify",
            "record", "endpass", "sleep"}

\* variant: the handler does not leave the loop
AfterInterrupt_Continues == "sleep"
\* line 321: break
AfterInterrupt == "stopped"

\* lines 316-321: KeyboardInterrupt, raised between two steps of the loop,
\* passes every `except Exception` and reaches the handler of the loop
Interrupt ==
    /\ mode = "service"
    /\ pc \in LoopPcs
    /\ interrupted' = pc
    /\ \E http \in Posts :
          snd' = IF ENABLE_CHAT_NOTIFICATIONS
                 THEN send_google_chat_message("stopped", http) ELSE NoSend
    /\ chk' = [dev |-> 0] @@ NoCheck
    /\ pc' = AfterInterrupt
    /\ UNCHANGED << open, config, store, i, cycle, time_diff, order, obs >>

(* ----------------------------- sync_all_devices ------------------------ *)
\* variant: the configuration switch is not consulted
SyncDisabled_Never == FALSE
\* line 250
SyncDisabled == ~ENABLE_TIME_SYNC

\* lines 248-258: entry of sync_all_devices
StartPass ==
    /\ pc = "pass"
    /\ IF SyncDisabled
       THEN /\ pc' = IF mode = "sync" THEN "done" ELSE "sleep"
            /\ UNCHANGED << i, cycle, order, obs >>
       ELSE /\ pc' = "check1"
            /\ i' = 1
            /\ cycle' = cycle + 1
            /\ order' = << >>
            /\ obs' = FreshObs(0)
    /\ Quiet
    /\ UNCHANGED << open, config, interrupted, store, time_diff >>

\* line 263: the reachability check of the loop body; an exception leaving
\* it is caught at line 270
Check1 ==
    /\ pc = "check1"
    /\ \E session \in Sessions, save1 \in Outcomes, save2 \in Outcomes :
          LET r == check_device_online_status(status[i], session[1], session[2],
                                              save1, save2)
          IN  /\ \E http \in (IF r.msgs = << >> THEN {"none"} ELSE Posts) :
                    Checked(i, r, http)
              /\ obs' = ObsCheck(FreshObs(i), status[i], r)
              /\ IF r.ret = "raise" THEN Caught
                 ELSE IF IsOnline(r.ret) THEN pc' = "check2" /\ i' = i
                 ELSE NextDevice
    /\ order' = Append(order, i)
    /\ UNCHANGED << config, interrupted, cycle, lastSync, lastRun, time_diff >>

\* lines 190-192: the reachability check at the head of sync_device_time,
\* outside its try block
Check2 ==
    /\ pc = "check2"
    /\ \E session \in Sessions, save1 \in Outcomes, save2 \in Outcomes :
          LET r == check_device_online_status(status[i], session[1], session[2],
                                              save1, save2)
          IN  /\ \E http \in (IF r.msgs = << >> THEN {"none"} ELSE Posts) :
                    Checked(i, r, http)
              /\ IF r.ret = "raise"
                 THEN /\ obs' = Return(ObsCheck(obs, status[i], r), "raise")
                      /\ Caught
                 ELSE IF IsOnline(r.ret)
                 THEN /\ obs' = ObsCheck(obs, status[i], r)
                      /\ pc' = "get_time" /\ i' = i
                 ELSE /\ obs' = Return(ObsCheck(obs, status[i], r), "false")
                      /\ pc' = "record" /\ i' = i
    /\ UNCHANGED << config, interrupted, cycle, lastSync, lastRun, time_diff, order >>

\* lines 194-207 and 236-245: the first read of the device clock and the
\* decision whether to correct it
GetTime ==
    /\ pc = "get_time"
    /\ \E session \in Sessions, get \in {"raise", "none", "time"} :
       \E offset \in (IF session[1] = "ok" /\ get = "time" THEN Offsets ELSE {0}) :
          LET g == get_device_time(session[1], get, session[2])
              diff == Abs(0 - offset)
              o == ObsOps(obs, g)
          IN  /\ open' = open + g.opened - g.closed
              /\ CASE g.ret = "time" /\ ExceedsTolerance(diff) ->
                        /\ time_diff' = diff
                        /\ obs' = [o EXCEPT !.d1 = diff]
                        /\ pc' = "set_time"
                   [] g.ret = "time" /\ ~ExceedsTolerance(diff) ->
                        /\ time_diff' = diff
                        /\ obs' = Return([o EXCEPT !.d1 = diff], "true")
                        /\ pc' = "record"
                   [] g.ret = "none" ->
                        /\ time_diff' = time_diff
                        /\ obs' = Return(o, "false")
                        /\ pc' = "record"
                   [] OTHER ->
                        /\ time_diff' = time_diff
                        /\ obs' = Return(o, SyncFailed)
                        /\ pc' = "record"
    /\ Quiet
    /\ UNCHANGED << config, interrupted, store, i, cycle, order >>

\* line 211 with lines 152-182 and 243-245: the correction
SetTime ==
    /\ pc = "set_time"
    /\ \E session \in Sessions, disable \in Outcomes, set \in Outcomes,
          enable \in Outcomes :
          LET r == set_device_time(session[1], disable, set, enable, session[2])
              o == [ObsOps(obs, r) EXCEPT !.disabled = r.disabled]
          IN  /\ open' = open + r.opened - r.closed
              /\ IF r.ret = "true"
                 THEN /\ obs' = [o EXCEPT !.corrected = TRUE]
                      /\ pc' = "notify"
                 ELSE /\ obs' = Return(o, SyncFailed)
                      /\ pc' = "record"
    /\ Quiet
    /\ UNCHANGED << config, interrupted, store, i, cycle, time_diff, order >>

\* lines 212-220: the notification of a significant correction
Notify ==
    /\ pc = "notify"
    /\ IF SignificantCorrection(time_diff)
       THEN /\ \E http \in Posts : snd' = send_google_chat_message("synced", http)
            /\ obs' = [obs EXCEPT !.synced = @ + 1]
       ELSE snd' = NoSend /\ obs' = obs
    /\ chk' = [dev |-> 0] @@ NoCheck
    /\ pc' = "verify"
    /\ UNCHANGED << open, config, interrupted, store, i, cycle, time_diff, order >>

\* lines 222-232 and 243-245: the verification read after the settle delay
Verify ==
    /\ pc = "verify"
    /\ \E session \in Sessions, get \in {"raise", "none", "time"} :
       \E offset \in (IF session[1] = "ok" /\ get = "time" THEN VerifyOffsets ELSE {5}) :
          LET g == get_device_time(session[1], get, session[2])
              verification_diff == Abs(0 - offset)
              o == ObsOps(obs, g)
          IN  /\ open' = open + g.opened - g.closed
              /\ CASE g.ret = "time" ->
                        obs' = Return([o EXCEPT !.d2 = verification_diff],
                                      IF Verified(verification_diff)
                                      THEN "true" ELSE "false")
                   [] g.ret = "none" ->
                        obs' = Return(o, None)
                   [] OTHER ->
                        obs' = Return(o, SyncFailed)
    /\ pc' = "record"
    /\ Quiet
    /\ UNCHANGED << config, interrupted, store, i, cycle, time_diff, order >>

\* lines 265-270: the use of sync_device_time's result; an exception of
\* status.save() is caught at line 270
Record ==
    /\ pc = "record"
    /\ IF Truthy(obs.ret)
       THEN /\ lastSync' = [lastSync EXCEPT ![i] = cycle]
            /\ \E save \in Outcomes : IF save = "ok" THEN NextDevice ELSE Caught
       ELSE /\ lastSync' = lastSync
            /\ NextDevice
    /\ time_diff' = 0
    /\ Quiet
    /\ UNCHANGED << open, config, interrupted, status, lastRun, cycle, order, obs >>

\* variant: sync_all_devices is called without the try of main_time_sync
AfterPass_Unprotected(save) ==
    IF save # "ok" THEN "crashed"
    ELSE IF mode = "service" THEN "sleep" ELSE "done"
\* where the process goes when sync_all_devices ends with the outcome
\* `save` of line 278: lines 293-296 and 315 in the service, line 347-348
\* in mode sync
AfterPass(save) ==
    IF mode = "service" THEN "sleep"
    ELSE IF save = "ok" THEN "done" ELSE "crashed"

\* lines 273-278: the end of the pass; an exception of status.save() leaves
\* sync_all_devices, is caught at line 295 in the service and ends the
\* process in mode sync
EndPass ==
    /\ pc = "endpass"
    /\ lastRun' = cycle
    /\ \E save \in Outcomes : pc' = AfterPass(save)
    /\ Quiet
    /\ UNCHANGED << open, config, interrupted, status, lastSync, i, cycle, time_diff, order, obs >>

(* ------------------------------- mode check ---------------------------- *)
\* the loop of mode check moves to the next device, lines 352, 370
NextReported ==
    IF i < NumDevices
    THEN i' = i + 1 /\ pc' = "chk_status"
    ELSE i' = i /\ pc' = "done"

\* variant: mode check runs the synchronisation of the device
ReportOnline_Syncs == "check2"
\* lines 357-359: what mode check does with a device that is online
ReportOnline == "chk_time"

\* lines 352-357 and 367-371
CheckModeStatus ==
    /\ pc = "chk_status"
    /\ \E session \in Sessions, save1 \in Outcomes, save2 \in Outcomes :
          LET r == check_device_online_status(status[i], session[1], session[2],
                                              save1, save2)
          IN  /\ \E http \in (IF r.msgs = << >> THEN {"none"} ELSE Posts) :
                    Checked(i, r, http)
              /\ obs' = ObsCheck(FreshObs(i), status[i], r)
              /\ IF IsOnline(r.ret)
                 THEN pc' = ReportOnline /\ i' = i
                 ELSE NextReported
    /\ order' = Append(order, i)
    /\ UNCHANGED << config, interrupted, cycle, lastSync, lastRun, time_diff >>

\* lines 359-366 and 370-371
CheckModeTime ==
    /\ pc = "chk_time"
    /\ \E session \in Sessions, get \in {"raise", "none", "time"} :
          LET g == get_device_time(session[1], get, session[2])
          IN  /\ obs' = ObsOps(obs, g)
              /\ open' = open + g.opened - g.closed
    /\ NextReported
    /\ Quiet
    /\ UNCHANGED << config, interrupted, store, cycle, time_diff, order >>

(* -------------------------------- mode test ---------------------------- *)
\* lines 373-377
Test ==
    /\ pc = "test"
    /\ \E http \in Posts : snd' = send_google_chat_message("test", http)
    /\ chk' = [dev |-> 0] @@ NoCheck
    /\ pc' = "done"
    /\ UNCHANGED << open, config, interrupted, store, i, cycle, time_diff, order, obs >>

\* lines 378-383
Usage ==
    /\ pc = "usage"
    /\ pc' = "done"
    /\ Quiet
    /\ UNCHANGED << open, config, interrupted, store, i, cycle, time_diff, order, obs >>

\* the steps of the program itself
Run ==
    \/ Startup
    \/ Sleep
    \/ StartPass
    \/ Check1
    \/ Check2
    \/ GetTime
    \/ SetTime
    \/ Notify
    \/ Verify
    \/ Record
    \/ EndPass
    \/ CheckModeStatus
    \/ CheckModeTime
    \/ Test
    \/ Usage

Next ==
    \/ Run
    \/ Interrupt

Spec == Init /\ [][Next]_vars

\* every step of the program ends: the device sessions have timeouts of 5
\* and 30 seconds, the POST one of 10 seconds, the sleeps are finite; the
\* interruption is the operator's and may never come
LiveSpec == Spec /\ WF_vars(Run)

TypeOK ==
    /\ mode \in Modes
    /\ pc \in {"startup", "pass", "check1", "check2", "get_time", "set_time", "notify",
               "verify", "record", "endpass", "sleep", "done", "crashed", "stopped",
               "chk_status", "chk_time", "test", "usage"}
    /\ i \in Devices
    /\ cycle \in 0..MaxCycles
    /\ status \in [Devices -> {None, "online", "offline"}]
    /\ lastSync \in [Devices -> 0..MaxCycles]
    /\ lastRun \in 0..MaxCycles

(* ======================================================================= *)
(* Properties                                                              *)
(* ======================================================================= *)
Range(f) == {f[k] : k \in DOMAIN f}
CorrectionOps == {"disable", "set_time", "enable"}

\* the step is a call of check_device_online_status on device d whose probe
\* (connect, disconnect) failed: the check finds d unreachable
FoundUnreachable(d) == chk'.dev = d /\ chk'.probe = "fail"

\* the step is a call of check_device_online_status on device d whose probe
\* succeeded and which reported the device online
FoundReachable(d) == chk'.dev = d /\ chk'.probe = "ok" /\ chk'.ret = "true"

\* C1: a check that finds a device stored as 'online' unreachable sends
\* exactly one notification, the OFFLINE one, and stores 'offline'; a check
\* that finds a device stored as 'offline' unreachable (as every check
\* following the former does) sends nothing and leaves 'offline' stored.
C1_OfflineNotifiedOnce ==
    [][\A d \in Devices :
          FoundUnreachable(d) =>
             /\ status[d] = "online" =>
                   chk'.msgs = << "offline" >> /\ status'[d] = "offline"
             /\ status[d] = "offline" =>
                   chk'.msgs = << >> /\ status'[d] = "offline"]_vars

C1_Witness ==
    /\ chk.dev # 0 /\ chk.probe = "fail" /\ chk.prev = "online"
    /\ chk.msgs = << "offline" >>
    /\ status[chk.dev] = "offline"

FirstEverUnreachable ==
    obs.dev # 0 /\ obs.first.prev = None /\ obs.first.probe = "fail"

\* C3 as stated: a device without a stored status whose first check finds
\* it unreachable gets 'offline' stored, no notification at all, and no
\* time synchronisation in that pass.
C3_FirstOfflineSilent ==
    FirstEverUnreachable =>
       /\ status[obs.dev] = "offline"
       /\ obs.offline = 0 /\ obs.online = 0
       /\ \A n \in OpNames : obs.ops[n] = 0

\* C3 as amended: a device without a stored status whose first check finds
\* it unreachable gets 'offline' stored and exactly one notification, the
\* OFFLINE one; it is not checked again and no device operation of the time
\* synchronisation is invoked on it in that pass.
C3_FirstOfflineNotified ==
    FirstEverUnreachable =>
       /\ status[obs.dev] = "offline"
       /\ obs.first.msgs = << "offline" >>
       /\ obs.offline = 1 /\ obs.online = 0
       /\ obs.checks = 1 /\ obs.ret = NotCalled
       /\ \A n \in OpNames : obs.ops[n] = 0

C3_Witness ==
    /\ FirstEverUnreachable
    /\ mode \in {"service", "sync"}
    /\ pc = "endpass"
    /\ status[obs.dev] = "offline" /\ obs.offline = 1

\* sync_device_time has returned for device obs.dev and line 265 has used
\* its result
Used == pc # "record" /\ interrupted # "record"

WithinTolerance(diff) == diff >= 0 /\ diff <= TIME_TOLERANCE_SECONDS

\* C4: when the first read of a device's clock differs from the system time
\* by at most the tolerance (equality included), none of disable, set_time
\* and enable is invoked on the device, sync_device_time returns True and
\* the device's last-sync key is written in this pass.
C4_InToleranceNoWrite ==
    obs.dev # 0 /\ WithinTolerance(obs.d1) =>
       /\ \A n \in CorrectionOps : obs.ops[n] = 0
       /\ obs.ret = "true"
       /\ Used => lastSync[obs.dev] = cycle

C4_Witness ==
    /\ obs.dev # 0 /\ obs.d1 = TIME_TOLERANCE_SECONDS /\ Used
    /\ obs.ret = "true" /\ cycle = MaxCycles /\ lastSync[obs.dev] = cycle

\* C5: when the difference exceeds the tolerance, the sequence disable,
\* set_time, enable completes and the verification read differs by at most
\* the tolerance, sync_device_time returns True and the device's last-sync
\* key is written in this pass.
C5_VerifiedCorrectionSucceeds ==
    obs.dev # 0 /\ obs.corrected /\ WithinTolerance(obs.d2) =>
       /\ obs.ret = "true"
       /\ Used => lastSync[obs.dev] = cycle

C5_Witness ==
    /\ obs.dev # 0 /\ obs.d1 = 400 /\ obs.corrected /\ obs.d2 = 5 /\ Used
    /\ obs.synced = 1 /\ obs.ret = "true" /\ lastSync[obs.dev] = cycle

\* C6: when the verification read differs by more than the tolerance,
\* sync_device_time returns False and the last-sync key is not written in
\* this pass; a device has one turn in a pass and set_time is invoked at
\* most once in it.
C6_FailedVerificationNoRetry ==
    obs.dev # 0 =>
       /\ obs.d2 > TIME_TOLERANCE_SECONDS =>
             obs.ret = "false" /\ lastSync[obs.dev] # cycle
       /\ \A n \in CorrectionOps : obs.ops[n] <= 1
       /\ Cardinality(Range(order)) = Len(order)

C6_Witness ==
    /\ obs.dev # 0 /\ obs.d2 > TIME_TOLERANCE_SECONDS /\ Used
    /\ obs.ops["set_time"] = 1 /\ obs.ret = "false"

\* C7: in every mode, a step writes a device's last-sync key only when, in
\* this pass, both reachability checks of the device succeeded and either
\* its clock was within tolerance and nothing was corrected, or the
\* correction completed and the verification read was within tolerance.
C7_LastSyncOnlyVerified ==
    [][\A d \in Devices :
          lastSync'[d] # lastSync[d] =>
             /\ mode \in {"service", "sync"}
             /\ obs.dev = d /\ lastSync'[d] = cycle
             /\ obs.checks = 2 /\ obs.first.ret = "true" /\ obs.ret = "true"
             /\ \/ WithinTolerance(obs.d1) /\ ~obs.corrected
                \/ obs.d1 > TIME_TOLERANCE_SECONDS /\ obs.corrected
                   /\ WithinTolerance(obs.d2)]_vars

C7_Witness ==
    /\ obs.dev # 0 /\ Used /\ cycle = MaxCycles /\ lastSync[obs.dev] = cycle
    /\ obs.corrected /\ obs.d2 = TIME_TOLERANCE_SECONDS

\* C8: send_google_chat_message never raises; it returns True exactly when
\* it made its POST and the response was 200; it makes at most one POST and
\* none when notifications are disabled or no webhook is configured.
C8_SendReturnsDelivery ==
    snd.kind # "none" =>
       /\ ~snd.raised
       /\ snd.ret \in BOOLEAN
       /\ snd.posts \in {0, 1}
       /\ snd.ret <=> (snd.posts = 1 /\ snd.http = "200")
       /\ snd.http \in {"exception", "204", "500"} => ~snd.ret
       /\ ~ENABLE_CHAT_NOTIFICATIONS \/ ~GOOGLE_CHAT_WEBHOOK =>
             snd.posts = 0 /\ ~snd.ret

C8_Witness ==
    snd.kind = "test" /\ snd.posts = 1 /\ snd.http = "204" /\ ~snd.ret

\* C9 as stated: in mode check no step changes a stored key and none of
\* disable, set_time and enable is invoked.
C9_CheckModeReadOnly ==
    [][mode = "check" =>
          /\ status' = status /\ lastSync' = lastSync /\ lastRun' = lastRun
          /\ \A n \in CorrectionOps : obs'.ops[n] = 0]_vars

\* C9 as amended: in mode check no step changes a last-sync key or the key
\* of the last run and none of disable, set_time and enable is invoked; the
\* stored online status of a device changes only by its reachability check,
\* which stores what the check decided.
C9_CheckModeNoSync ==
    [][mode = "check" =>
          /\ lastSync' = lastSync /\ lastRun' = lastRun
          /\ \A n \in CorrectionOps : obs'.ops[n] = 0
          /\ \A d \in Devices :
                status'[d] # status[d] =>
                   /\ chk'.dev = d
                   /\ status'[d] = IF chk'.ret = "true" THEN "online" ELSE "offline"]_vars

C9_Witness ==
    /\ mode = "check" /\ pc = "done"
    /\ obs.dev # 0 /\ obs.ops["get_time"] = 1
    /\ obs.first.prev = None /\ status[obs.dev] = "online"

\* the devices in configured order, up to the k-th
Configured(k) == [n \in 1..k |-> n]

PassOver == pc \in {"endpass", "sleep", "done", "crashed"}

\* C10: in a pass of sync_all_devices with time sync enabled the devices
\* are checked one after the other in configured order, and when the pass
\* is over every configured device has been checked, whatever exceptions
\* the devices before it raised.
C10_BatchNotAborted ==
    mode \in {"service", "sync"} /\ cycle > 0 =>
       /\ order = Configured(Len(order))
       /\ pc \in {"check2", "get_time", "set_time", "notify", "verify", "record"} =>
             Len(order) = i /\ obs.dev = i
       /\ pc = "check1" => Len(order) = i - 1
       /\ PassOver => order = Configured(NumDevices)

C10_Witness ==
    /\ mode = "sync" /\ pc = "endpass"
    /\ order = Configured(NumDevices)
    /\ obs.dev = NumDevices /\ obs.ret = "raise"

\* C11 as stated: once the service loop was interrupted, one shutdown
\* notification has been sent, the loop has ended and nothing follows.
C11_ShutdownNotified ==
    interrupted # "no" => pc = "stopped" /\ snd.kind = "stopped"

\* C11 as amended: an interruption of the service loop, during a pass or the
\* sleep, ends the loop; the handler calls send_google_chat_message once,
\* for the shutdown, when ENABLE_CHAT_NOTIFICATIONS is set and not at all
\* otherwise; it touches neither store nor device, and no step follows it.
C11_ShutdownHandled ==
    /\ [](interrupted # "no" =>
             /\ mode = "service" /\ pc = "stopped"
             /\ chk.dev = 0
             /\ snd.kind = IF ENABLE_CHAT_NOTIFICATIONS THEN "stopped" ELSE "none")
    /\ [][/\ interrupted = "no"
          /\ interrupted' # "no" =>
                /\ interrupted' \in LoopPcs
                /\ store' = store /\ obs' = obs /\ order' = order]_vars

C11_Witness ==
    /\ pc = "stopped" /\ interrupted = "set_time"
    /\ snd.kind = "stopped" /\ snd.posts = 1

\* C12: the service never ends by an error, and unless it is interrupted
\* it completes pass after pass whatever fails in them: again and again it
\* is in the sleep that follows a pass, and with the synchronisation
\* enabled in the sleep that follows pass number MaxCycles.
C12_ServiceKeepsCycling ==
    /\ [](mode = "service" => pc \notin {"done", "crashed"})
    /\ []<>(mode = "service" =>
               \/ interrupted # "no"
               \/ pc = "sleep" /\ (cycle = MaxCycles \/ ~ENABLE_TIME_SYNC))

C12_Witness ==
    /\ mode = "service" /\ cycle = MaxCycles /\ pc = "check1" /\ i = 1
    /\ lastRun = cycle - 1
    /\ \A d \in Devices : status[d] = "offline" /\ lastSync[d] = 0

\* C13: once a reachability check of a device has not returned True in a
\* pass, none of get_time, disable, set_time and enable is invoked on that
\* device in the pass, and its clock is neither compared nor corrected.
C13_UnreachableExcluded ==
    obs.unreachable =>
        /\ \A n \in OpNames : obs.ops[n] = 0
        /\ obs.d1 = -1 /\ obs.d2 = -1
        /\ ~obs.corrected /\ obs.synced = 0
        /\ obs.ret \in {NotCalled, "false", "raise"}

C13_Witness ==
    /\ pc = "record" /\ obs.checks = 2 /\ obs.unreachable
    /\ obs.first.ret = "true" /\ chk.probe = "fail" /\ obs.ret = "false"

\* the calls of a session that are the device's answer to an operation
ProtocolCalls == {"get_time", "disable", "set_time", "enable"}

\* C14: after every step, whether it returned or raised, every session it
\* connected has had its disconnect call, so no session stays open and at
\* most one is open while a step runs.
C14_SessionsReleased == open = 0

C14_Witness ==
    /\ open = 0 /\ pc = "record"
    /\ obs.failed = "set_time" /\ obs.ops["set_time"] = 1

\* C15: when disable succeeded and set_time or enable raised, enable is not
\* invoked again, the device stays disabled, the cycle of the device reports
\* failure, nothing is verified and its last sync is not recorded.
C15_NoReenable ==
    /\ obs.failed \in {"set_time", "enable"} =>
          /\ obs.disabled
          /\ obs.ops["disable"] = 1 /\ obs.ops["set_time"] = 1
          /\ obs.ops["enable"] = (IF obs.failed = "enable" THEN 1 ELSE 0)
          /\ obs.ops["get_time"] = 1
          /\ obs.ret = "false" /\ ~obs.corrected /\ obs.synced = 0
          /\ Used => lastSync[obs.dev] # cycle
    /\ obs.disabled => obs.failed \in {"set_time", "enable"}

C15_Witness ==
    /\ pc \in {"sleep", "done"} /\ lastRun = cycle
    /\ obs.disabled /\ obs.failed = "set_time" /\ obs.ops["enable"] = 0

\* the operations invoked on the device when the call `failed` raised at
\* the first read (corrected FALSE) or at the verification read
OpsUpTo(failed, corrected) ==
    [n \in OpNames |->
        CASE n = "get_time" -> IF corrected THEN 2 ELSE 1
          [] n = "disable" -> IF failed = "get_time" /\ ~corrected THEN 0 ELSE 1
          [] n = "set_time" -> IF failed \in {"set_time", "enable"} \/ corrected
                               THEN 1 ELSE 0
          [] OTHER -> IF failed = "enable" \/ corrected THEN 1 ELSE 0]

\* C16: when an operation raises on a device that passed its reachability
\* checks, the cycle of the device reports failure, no operation follows the
\* failed one, its last sync is not recorded, its stored status is still
\* 'online' and no OFFLINE notification was sent for it.
C16_ProtocolFailureAborts ==
    obs.failed \in ProtocolCalls =>
        /\ status[obs.dev] = "online"
        /\ obs.offline = 0 /\ ~obs.unreachable
        /\ obs.ops = OpsUpTo(obs.failed, obs.corrected)
        /\ obs.d2 = -1
        /\ mode # "check" =>
              /\ obs.ret = "false"
              /\ Used => lastSync[obs.dev] # cycle

C16_Witness ==
    /\ pc \in {"check1", "endpass"} /\ obs.failed = "set_time"
    /\ obs.ret = "false" /\ status[obs.dev] = "online"

\* C17: a check whose probe connected leaves the status 'online' in the
\* store and sends no OFFLINE notification, even when status.save() raises
\* during the check.
C17_SaveFailureKeepsOnline ==
    chk.dev # 0 /\ chk.probe = "ok" =>
        /\ status[chk.dev] = "online"
        /\ "offline" \notin Range(chk.msgs)

\* C18 as stated: in one pass a device gets at most one status-change
\* notification and its stored status is written at most once.
C18_OneChangePerPass ==
    /\ obs.online + obs.offline <= 1
    /\ obs.sets <= 1

\* C18: in one pass a device is checked at most twice, gets at most one
\* "back ONLINE" and at most one "OFFLINE" notification, and its stored
\* status is written at most twice.
C18_ChangesBounded ==
    /\ obs.checks <= 2
    /\ obs.online <= 1 /\ obs.offline <= 1
    /\ obs.sets <= 2
    /\ obs.online + obs.offline <= obs.sets

C18_Witness ==
    /\ obs.checks = 2 /\ obs.first.prev = "offline" /\ obs.first.ret = "true"
    /\ chk.probe = "fail"
    /\ obs.online = 1 /\ obs.offline = 1 /\ obs.sets = 2

\* C19 as stated: when sync_device_time reports failure, no "Time
\* synchronized" notification was sent for the device in the pass.
C19_NotifiedOnlyVerified ==
    obs.ret \in {"false", None} => obs.synced = 0

\* C19: "Time synchronized" is sent at most once for a device in a pass,
\* exactly when set_device_time succeeded for a difference above
\* SignificantSeconds, whatever the verification then finds.
C19_NotifiedOnCorrection ==
    obs.synced = (IF /\ obs.corrected /\ obs.d1 > SignificantSeconds
                     /\ pc # "notify" /\ interrupted # "notify"
                  THEN 1 ELSE 0)

C19_Witness ==
    /\ pc = "record" /\ obs.synced = 1 /\ obs.ret = "false"
    /\ obs.d1 = 400 /\ obs.d2 = 61 /\ snd.kind = "none"

\* C20: with ENABLE_TIME_SYNC false no step of the service or of mode sync
\* checks a device, opens a session, invokes a device operation, writes a
\* key of the store or sends a notification other than the service's
\* startup and shutdown messages.
C20_DisabledPassNoEffect ==
    [][~ENABLE_TIME_SYNC /\ mode \in {"service", "sync"} =>
          /\ store' = store
          /\ chk'.dev = 0 /\ chk'.probe = "none"
          /\ obs' = obs /\ obs'.checks = 0 /\ order' = order
          /\ open' = open
          /\ snd'.kind \in {"none", "started", "stopped"}]_vars

C20_Witness ==
    /\ mode = "service" /\ ~ENABLE_TIME_SYNC /\ pc = "sleep"
    /\ cycle = 0 /\ lastRun = 0 /\ order = << >>

====
